---- MODULE Spec2Model ----
(***************************************************************************)
(* A model of azure_table_utils: the entity batch builder                  *)
(* (utils.create_entity_batch), the precondition decorators                *)
(* (utils.ensure_attributes, utils.ensure_non_empty_string), the fluent    *)
(* filter builder (main.QueryBuilder) and the table client facade          *)
(* (main.AzureStorageTableClient) talking to a storage service.            *)
(*                                                                         *)
(* Python text is modelled as a sequence of one-character strings, so that *)
(* formatting, regular expressions and character classes are computed and  *)
(* not assumed.  A Python value is a record [typ, val].                    *)
(***************************************************************************)
EXTENDS Integers, Sequences, FiniteSets, TLC

VARIABLES
    bb_pc,          \* batch builder: "input" before the call, "built" after
    bb_mode,        \* create_entity_batch: parameter mode
    bb_entity,      \* create_entity_batch: parameter entity (the list's items)
    bb_batch,       \* create_entity_batch: the returned list of batches
    heap,           \* the objects create_entity_batch works on, by address
    frame,          \* create_entity_batch run turn by turn: its local variables
    q_query,        \* QueryBuilder._query
    q_calls,        \* history: the builder calls made so far, in order
    q_ret,          \* the value returned by the last get_query()
    tables,         \* storage service: the names of the tables that exist
    committed,      \* storage service: the transactions committed, in order
    requests,       \* history: every call made on the Azure SDK, with its outcome
    table_service_client, \* per client: AzureStorageTableClient.table_service_client
    pc,             \* per client: position of the client's current call
    call,           \* per client: the facade call being made (op, args, kwargs)
    entity,         \* per client: the caller's entity list object, mutated in place
    names,          \* per client: local variable tables (result of get_table_names)
    batchs,         \* per client: local variable batchs of update_create_entity
    sent,           \* per client: number of batches of batchs already iterated
    raised,         \* per client: the exception the call ended with, or NoError
    returned        \* per client: the value the call returned

varsBatch  == <<bb_pc, bb_mode, bb_entity, bb_batch, heap, frame>>
varsQuery  == <<q_query, q_calls, q_ret>>
varsFacade == <<tables, committed, requests, table_service_client, pc, call,
                entity, names, batchs, sent, raised, returned>>
vars == <<varsBatch, varsQuery, varsFacade>>

----------------------------------------------------------------------------
(* Bounds of the model *)

\* the longest entity list given to create_entity_batch
MaxEntities == 201
\* the longest list of hand-made (possibly invalid) entities given to the facade
MaxItems == 2
\* the longest chain of QueryBuilder calls
MaxCalls == 3

\* utils.py line 80: a batch is sealed when count >= 100
BatchLimit == 100

----------------------------------------------------------------------------
(* Python values *)

Clients == {1, 2}

NoCall  == [op |-> "", args |-> <<>>, kwargs |-> <<>>]

PyNone     == [typ |-> "NoneType", val |-> <<>>]
PyStr(s)   == [typ |-> "str",  val |-> s]
PyInt(n)   == [typ |-> "int",  val |-> n]
PyBool(b)  == [typ |-> "bool", val |-> b]
PyList(xs) == [typ |-> "list", val |-> xs]
\* a dict keeps insertion order: a sequence of [k, v] with distinct keys
PyDict(kv) == [typ |-> "dict", val |-> kv]

\* issubclass(t, cls) for the built-in types used: bool is a subclass of int
IsSubclass(t, cls) == t = cls \/ (t = "bool" /\ cls = "int")

\* isinstance(v, classes), classes a set of type names
isinstance(v, classes) == \E cls \in classes : IsSubclass(v.typ, cls)

\* bool(v): the truth value Python gives v ("not v" is ~Truthy(v))
Truthy(v) ==
    CASE v.typ = "NoneType" -> FALSE
      [] v.typ = "bool"     -> v.val
      [] v.typ = "int"      -> v.val # 0
      [] OTHER              -> Len(v.val) > 0

DigitChars == <<"0", "1", "2", "3", "4", "5", "6", "7", "8", "9">>

RECURSIVE ToDecimal(_)
\* str(n) of a non-negative int: its decimal digits
ToDecimal(n) ==
    IF n < 10 THEN <<DigitChars[n + 1]>>
    ELSE ToDecimal(n \div 10) \o <<DigitChars[(n % 10) + 1]>>

\* format(value, "") as an f-string does it: str(value)
PyFormat(v) ==
    CASE v.typ = "str"      -> v.val
      [] v.typ = "int"      -> IF v.val < 0 THEN <<"-">> \o ToDecimal(-v.val)
                               ELSE ToDecimal(v.val)
      [] v.typ = "bool"     -> IF v.val THEN <<"T", "r", "u", "e">>
                               ELSE <<"F", "a", "l", "s", "e">>
      [] OTHER              -> <<"N", "o", "n", "e">>

\* ord(c) of the characters the model uses
Ord(c) ==
    CASE c = "\n" -> 10  [] c = " " -> 32  [] c = "'" -> 39  [] c = "-" -> 45
      [] c = "." -> 46
      [] c = "0" -> 48   [] c = "1" -> 49  [] c = "2" -> 50  [] c = "3" -> 51
      [] c = "4" -> 52   [] c = "5" -> 53  [] c = "6" -> 54  [] c = "7" -> 55
      [] c = "8" -> 56   [] c = "9" -> 57
      [] c = "A" -> 65   [] c = "F" -> 70  [] c = "K" -> 75  [] c = "N" -> 78
      [] c = "P" -> 80   [] c = "R" -> 82  [] c = "T" -> 84  [] c = "Z" -> 90
      [] c = "[" -> 91   [] c = "^" -> 94  [] c = "_" -> 95
      [] c = "a" -> 97   [] c = "b" -> 98  [] c = "c" -> 99  [] c = "d" -> 100
      [] c = "e" -> 101  [] c = "g" -> 103 [] c = "i" -> 105 [] c = "l" -> 108
      [] c = "m" -> 109  [] c = "n" -> 110 [] c = "o" -> 111 [] c = "q" -> 113
      [] c = "r" -> 114  [] c = "s" -> 115 [] c = "t" -> 116 [] c = "u" -> 117
      [] c = "w" -> 119  [] c = "y" -> 121 [] c = "z" -> 122

PartitionKey == <<"P", "a", "r", "t", "i", "t", "i", "o", "n", "K", "e", "y">>
RowKey       == <<"R", "o", "w", "K", "e", "y">>

\* one item of a dict
Field(k, v) == [k |-> k, v |-> v]

\* dict helpers: keys(), "k in d", d.get(k)
DictKeys(d)   == [i \in 1..Len(d.val) |-> d.val[i].k]
HasKey(d, k)  == \E i \in 1..Len(d.val) : d.val[i].k = k
DictGet(d, k) ==
    IF HasKey(d, k)
    THEN d.val[CHOOSE i \in 1..Len(d.val) : d.val[i].k = k].v
    ELSE PyNone

----------------------------------------------------------------------------
(* Exceptions *)

\* an exception: its class, its message (shortened) and the class of its
\* __cause__ ("" when it has none); NoError stands for "nothing was raised"
NoError == [cls |-> "", msg |-> "", cause |-> ""]
Error(cls, msg) == [cls |-> cls, msg |-> msg, cause |-> ""]

\* azure.core.exceptions: ResourceExistsError derives from HttpResponseError
IsExceptionClass(cls, base) ==
    cls = base \/ (cls = "ResourceExistsError" /\ base = "HttpResponseError")

\* "except (b1, b2, ...)" catches e
Catches(bases, e) == \E base \in bases : IsExceptionClass(e.cls, base)

\* A plausible slip of the handlers below: the failure is re-raised as a ValueError.
reraise_as_value_error(e, msg) == [cls |-> "ValueError", msg |-> msg, cause |-> e.cls]

\* A plausible slip of the handlers below: raise Exception(...) from e, as the
\* handler around create_entity_batch raises.
reraise_as_exception(e, msg) ==
    IF e = NoError THEN e ELSE [cls |-> "Exception", msg |-> msg, cause |-> e.cls]

\* A plausible slip of the handlers below: raise HttpResponseError(...) from e,
\* whatever the class of e.
reraise_as_response_error(e, msg) ==
    IF e = NoError THEN e
    ELSE [cls |-> "HttpResponseError", msg |-> msg, cause |-> e.cls]

\* except (HttpResponseError, ServiceRequestError) as e:
\*     raise type(e)(f'<msg>: {str(e)}') from e
\* (an exception of another class passes through the handler untouched)
reraise(e, msg) ==
    IF Catches({"HttpResponseError", "ServiceRequestError"}, e)
    THEN [cls |-> e.cls, msg |-> msg, cause |-> e.cls]
    ELSE e

----------------------------------------------------------------------------
(* utils.ensure_attributes, utils.ensure_non_empty_string *)

\* the wrapper of ensure_attributes(attribute) around a method: value is
\* getattr(self, attribute)
ensure_attributes(value) ==
    IF value = PyNone
    THEN Error("AttributeError", "Attribute not initialized.")
    ELSE NoError

\* 0 when x is not in the tuple t, else its first position (from 1)
IndexOf(t, x) ==
    IF \E i \in 1..Len(t) : t[i] = x
    THEN CHOOSE i \in 1..Len(t) : t[i] = x /\ \A j \in 1..(i - 1) : t[j] # x
    ELSE 0

\* the wrapper of ensure_non_empty_string(parameter) around a method whose
\* __code__.co_varnames[1:] is varnames, called with args and kwargs
ensure_non_empty_string(varnames, args, kwargs, parameter) ==
    LET idx   == IndexOf(varnames, parameter) - 1
        value == IF parameter \in DOMAIN kwargs THEN kwargs[parameter]
                 ELSE IF idx < Len(args) THEN args[idx + 1] ELSE PyNone
    IN  IF parameter \notin DOMAIN kwargs /\ idx < 0
        THEN Error("ValueError", "Parameter not found in method arguments.")
        ELSE IF ~Truthy(value) \/ ~isinstance(value, {"str"})
        THEN Error("ValueError", "must be a non-empty string.")
        ELSE NoError

----------------------------------------------------------------------------
(* utils.create_entity_batch *)

\* one element of a batch: ('upsert', item, {'mode': mode})
Operation(item, mode) == [verb |-> "upsert", entity |-> item, mode |-> mode]

\* A plausible slip of the test below: > for >=.
seal_strict(count, total_entities, idx) ==
    count > BatchLimit \/ total_entities = idx

\* the test that seals the accumulating group
seal(count, total_entities, idx) ==
    count >= BatchLimit \/ total_entities = idx

\* the body of the for loop on the loop's variables st = [count, temp_batch, batch]
loop_body(st, mode, item, idx, total_entities) ==
    LET temp  == Append(st.temp_batch, Operation(item, mode))
        count == st.count + 1
    IN  IF seal(count, total_entities, idx)
        THEN [count |-> 0, temp_batch |-> <<>>, batch |-> Append(st.batch, temp)]
        ELSE [count |-> count, temp_batch |-> temp, batch |-> st.batch]

RECURSIVE for_items(_, _, _, _, _)
\* for idx, item in enumerate(entity, start=1), restricted to idx in lo..hi:
\* the body runs on each item in order, left to right.  The range is halved,
\* and the left half evaluated first, only to keep the evaluation shallow.
for_items(st, mode, items, lo, hi) ==
    IF lo > hi THEN st
    ELSE IF lo = hi THEN loop_body(st, mode, items[lo], lo, Len(items))
    ELSE LET mid  == (lo + hi) \div 2
             left == for_items(st, mode, items, lo, mid)
         IN  IF left.count >= 0
             THEN for_items(left, mode, items, mid + 1, hi)
             ELSE left

create_entity_batch(mode, items) ==
    for_items([count |-> 0, temp_batch |-> <<>>, batch |-> <<>>],
              mode, items, 1, Len(items)).batch

\* a valid entity, told from the others by its RowKey
Row(i) == PyDict(<<[k |-> PartitionKey, v |-> PyStr(<<"P">>)],
                   [k |-> RowKey, v |-> PyStr(ToDecimal(i))]>>)
Rows(n) == [i \in 1..n |-> Row(i)]

Merge   == <<"m", "e", "r", "g", "e">>
Replace == <<"r", "e", "p", "l", "a", "c", "e">>
Modes   == {PyStr(Merge), PyStr(Replace)}

----------------------------------------------------------------------------
(* utils.create_entity_batch on objects: lists and dicts are objects of a     *)
(* heap, known by their addresses, so that two names of one object are told   *)
(* from two equal objects.  A tuple, which cannot be changed, is a value: the *)
(* operation ('upsert', item, {'mode': mode}) holds the address of item.      *)

EmptyHeap == [a \in {} |-> PyNone]

NoFrame == [pc |-> "off", mode |-> PyStr(Merge), entity |-> <<>>, idx |-> 0,
            count |-> 0, temp_batch |-> 0, batch |-> <<>>]

\* an address no object has yet
Fresh(h) == IF DOMAIN h = {} THEN 1
            ELSE (CHOOSE a \in DOMAIN h : \A b \in DOMAIN h : b <= a) + 1

\* list.append(x) and list.clear() on the list at address a
list_append(h, a, x) == [h EXCEPT ![a] = PyList(Append(h[a].val, x))]
list_clear(h, a)     == [h EXCEPT ![a] = PyList(<<>>)]

\* A plausible slip of the snapshot below: copy.copy(temp_batch), a new list
\* of the same operations, which hold the caller's dicts.
shallow_copy(h, a) ==
    LET new == Fresh(h)
    IN  [heap |-> [x \in DOMAIN h \cup {new} |-> IF x = new THEN h[a] ELSE h[x]],
         addr |-> new]

\* copy.deepcopy(temp_batch) of the list at address a: a new list of new
\* tuples, each dict the tuples hold copied once (deepcopy's memo gives two
\* tuples that hold one dict one copy of it); [heap, addr] is the heap after
\* the copy and the address of the new list
deepcopy(h, a) ==
    LET ops   == h[a].val
        new   == Fresh(h)
        first(j) == CHOOSE k \in 1..j :
                        ops[k].entity = ops[j].entity
                        /\ \A m \in 1..(k - 1) : ops[m].entity # ops[j].entity
        copy(j)  == new + first(j)
        copies   == {copy(j) : j \in 1..Len(ops)}
        source(x) == h[ops[x - new].entity]
    IN  [heap |-> [x \in DOMAIN h \cup {new} \cup copies |->
                     IF x = new
                     THEN PyList([j \in 1..Len(ops) |->
                                     [ops[j] EXCEPT !.entity = copy(j)]])
                     ELSE IF x \in copies THEN source(x)
                     ELSE h[x]],
         addr |-> new]

\* one turn of "for idx, item in enumerate(entity, start=1)", with the
\* return that follows the last turn
Iterate ==
    /\ frame.pc = "loop"
    /\ LET idx   == frame.idx + 1
           item  == frame.entity[idx]
           total_entities == Len(frame.entity)
           h1    == list_append(heap, frame.temp_batch, Operation(item, frame.mode))
           count == frame.count + 1
           snap  == deepcopy(h1, frame.temp_batch)
           pc1   == IF idx = total_entities THEN "returned" ELSE "loop"
       IN  IF seal(count, total_entities, idx)
           THEN /\ heap' = list_clear(snap.heap, frame.temp_batch)
                /\ frame' = [frame EXCEPT !.pc = pc1, !.idx = idx, !.count = 0,
                                          !.batch = Append(frame.batch, snap.addr)]
           ELSE /\ heap' = h1
                /\ frame' = [frame EXCEPT !.pc = pc1, !.idx = idx, !.count = count]
    /\ UNCHANGED <<bb_pc, bb_mode, bb_entity, bb_batch, varsQuery, varsFacade>>

----------------------------------------------------------------------------
(* main.Operator and main.QueryBuilder *)

Operator == [EQUAL              |-> <<"e", "q">>,
             NOTQUAL            |-> <<"n", "e">>,
             GREATERTHAN        |-> <<"g", "t">>,
             GREATERTHANOREQUAL |-> <<"g", "e">>,
             LESSTHAN           |-> <<"l", "t">>,
             LESSTHANOREQUAL    |-> <<"l", "e">>,
             AND                |-> <<"a", "n", "d">>,
             NOT                |-> <<"n", "o", "t">>,
             OR                 |-> <<"o", "r">>]

\* str.lower(), on the letters the model uses
LowerChar(c) ==
    CASE c = "A" -> "a" [] c = "F" -> "f" [] c = "K" -> "k" [] c = "N" -> "n"
      [] c = "P" -> "p" [] c = "R" -> "r" [] c = "T" -> "t" [] c = "Z" -> "z"
      [] OTHER -> c
Lower(s) == [i \in 1..Len(s) |-> LowerChar(s[i])]

\* A plausible slip of set_column: the separating space is forgotten.
set_column_nospace(self_query, columne_name) ==
    self_query \o PyFormat(columne_name)

\* self._query += f"{columne_name} "
set_column(self_query, columne_name) ==
    self_query \o PyFormat(columne_name) \o <<" ">>

\* the if / elif / elif chain of set_value, in the order of the source
set_value(self_query, value) ==
    IF isinstance(value, {"str"})
    THEN self_query \o <<"'">> \o PyFormat(value) \o <<"'", " ">>
    ELSE IF isinstance(value, {"int", "float"})
    THEN self_query \o PyFormat(value) \o <<" ">>
    ELSE IF isinstance(value, {"bool"})
    THEN self_query \o Lower(PyFormat(value)) \o <<" ">>
    ELSE self_query

\* self._query += f"datetime{value} "
set_value_datetime(self_query, value) ==
    self_query \o <<"d", "a", "t", "e", "t", "i", "m", "e">> \o PyFormat(value) \o <<" ">>

\* self._query += f"{operator} "
set_operator(self_query, operator) ==
    self_query \o PyFormat(operator) \o <<" ">>

\* the arguments the builder is driven with
ColumnNames == {PyStr(<<"A", "g", "e">>)}
OperatorArgs == {PyStr(Operator.GREATERTHANOREQUAL), PyStr(Operator.AND)}
ValueArgs == {PyStr(<<"A">>), PyInt(21), PyBool(TRUE), PyBool(FALSE), PyNone}
DatetimeArgs == {PyStr(<<"2", "0", "2", "4", "Z">>)}

QCall(m, arg) == [m |-> m, arg |-> arg]

Do_set_column ==
    /\ Len(q_calls) < MaxCalls
    /\ \E columne_name \in ColumnNames :
         /\ q_query' = set_column(q_query, columne_name)
         /\ q_calls' = Append(q_calls, QCall("set_column", columne_name))
    /\ UNCHANGED <<q_ret, varsBatch, varsFacade>>

Do_set_value ==
    /\ Len(q_calls) < MaxCalls
    /\ \E value \in ValueArgs :
         /\ q_query' = set_value(q_query, value)
         /\ q_calls' = Append(q_calls, QCall("set_value", value))
    /\ UNCHANGED <<q_ret, varsBatch, varsFacade>>

Do_set_value_datetime ==
    /\ Len(q_calls) < MaxCalls
    /\ \E value \in DatetimeArgs :
         /\ q_query' = set_value_datetime(q_query, value)
         /\ q_calls' = Append(q_calls, QCall("set_value_datetime", value))
    /\ UNCHANGED <<q_ret, varsBatch, varsFacade>>

Do_set_operator ==
    /\ Len(q_calls) < MaxCalls
    /\ \E operator \in OperatorArgs :
         /\ q_query' = set_operator(q_query, operator)
         /\ q_calls' = Append(q_calls, QCall("set_operator", operator))
    /\ UNCHANGED <<q_ret, varsBatch, varsFacade>>

\* return self._query
Do_get_query ==
    /\ q_ret' = PyStr(q_query)
    /\ UNCHANGED <<q_query, q_calls, varsBatch, varsFacade>>

----------------------------------------------------------------------------
(* main.AzureStorageTableClient: the methods, their decorators, their arguments *)

\* the parameters of each method, after self
Params(op) ==
    CASE op = "get_table_names"      -> <<>>
      [] op = "create_table"         -> <<"table_name">>
      [] op = "delete_table"         -> <<"table_name">>
      [] op = "update_create_entity" -> <<"table_name", "entity", "mode">>
      [] op = "delete_entity"        -> <<"table_name", "partition_key", "row_key">>
      [] op = "select_entity"        -> <<"table_name", "query_filter">>

\* the decorators stacked on each method, the outermost (which runs first) first
Decorators(op) ==
    CASE op = "get_table_names"      -> <<"ensure_attributes">>
      [] op = "create_table"         -> <<"ensure_attributes", "ensure_non_empty_string">>
      [] op = "delete_table"         -> <<"ensure_attributes", "ensure_non_empty_string">>
      [] op = "update_create_entity" -> <<"ensure_attributes", "ensure_non_empty_string">>
      [] op = "delete_entity"        -> <<"ensure_non_empty_string", "ensure_attributes">>
      [] op = "select_entity"        -> <<"ensure_non_empty_string", "ensure_attributes">>

\* method.__code__.co_varnames[1:] of what ensure_non_empty_string decorates:
\* the method itself (its parameters, then its locals) when it is the inner
\* decorator, and the wrapper of ensure_attributes (self, *args, **kwargs, then
\* its local attribute) when it is the outer one
co_varnames(op) ==
    IF Decorators(op)[1] = "ensure_non_empty_string"
    THEN <<"args", "kwargs", "attribute">>
    ELSE CASE op = "create_table"         -> Params(op) \o <<"e">>
           [] op = "delete_table"         -> Params(op) \o <<"tables", "e">>
           [] op = "update_create_entity" ->
                Params(op) \o <<"item", "keys", "key", "table_client", "e", "batchs", "batch">>
           [] OTHER                       -> Params(op)

\* what the decorators of op raise for a call with args and kwargs on a client
\* whose table_service_client is tsc: the first failure, in the order they run
decorated(op, tsc, args, kwargs) ==
    LET attr == ensure_attributes(tsc)
        nes  == IF \E i \in 1..Len(Decorators(op)) :
                      Decorators(op)[i] = "ensure_non_empty_string"
                THEN ensure_non_empty_string(co_varnames(op), args, kwargs, "table_name")
                ELSE NoError
    IN  IF Decorators(op)[1] = "ensure_attributes"
        THEN (IF attr # NoError THEN attr ELSE nes)
        ELSE (IF nes # NoError THEN nes ELSE attr)

\* Python's binding of the parameter name of op for a call with args and kwargs
Arg(cl, name) ==
    LET i == IndexOf(Params(cl.op), name)
    IN  IF i <= Len(cl.args) THEN cl.args[i] ELSE cl.kwargs[name]

\* a call of op with the values vals of its parameters, given all by position
\* or all by keyword
MakeCall(op, style, vals) ==
    IF style = "positional"
    THEN [op |-> op, args |-> vals, kwargs |-> <<>>]
    ELSE [op |-> op, args |-> <<>>,
          kwargs |-> [n \in {Params(op)[i] : i \in 1..Len(vals)} |->
                         vals[IndexOf(Params(op), n)]]]

\* self.create_table(table_name=table_name), self.get_table_names(): the calls
\* the methods make on one another
InnerCall(op, table_name) ==
    IF op = "get_table_names" THEN MakeCall(op, "positional", <<>>)
    ELSE MakeCall(op, "keyword", <<table_name>>)

----------------------------------------------------------------------------
(* create_table: the naming rule *)

IsAlpha(c) == Ord(c) \in 65..90 \/ Ord(c) \in 97..122
IsAlnum(c) == IsAlpha(c) \/ Ord(c) \in 48..57

\* the whole of t is [A-Za-z][A-Za-z0-9]{2,62}
NameRule(t) ==
    /\ Len(t) \in 3..63
    /\ IsAlpha(t[1])
    /\ \A i \in 2..Len(t) : IsAlnum(t[i])

\* re.match(r'^[A-Za-z][A-Za-z0-9]{2,62}$', table_name): $ matches at the end
\* of the text and also just before a line break that ends the text
table_name_match(t) ==
    \/ NameRule(t)
    \/ Len(t) > 0 /\ t[Len(t)] = "\n" /\ NameRule(SubSeq(t, 1, Len(t) - 1))

\* create_table up to its request: the decorators, then the naming rule
create_table_checks(tsc, cl) ==
    LET dec == decorated("create_table", tsc, cl.args, cl.kwargs)
    IN  IF dec # NoError THEN dec
        ELSE IF ~table_name_match(Arg(cl, "table_name").val)
        THEN Error("ValueError", "Table name must be alphanumeric")
        ELSE NoError

----------------------------------------------------------------------------
(* update_create_entity: validation and normalization of the entities *)

\* the character class [^a-zA-z] of the source: every character whose code is
\* outside a-z and outside A-z (which spans the six codes between Z and a)
InKeyClass(c) == ~(Ord(c) \in 97..122 \/ Ord(c) \in 65..122)

\* re.sub(r'[^a-zA-z]', '_', key)
re_sub_key(key) == [i \in 1..Len(key) |-> IF InKeyClass(key[i]) THEN "_" ELSE key[i]]

\* dict.pop(key) of a key that is present: the dict without it
DictPop(kv, key) == SelectSeq(kv, LAMBDA e : e.k # key)

\* dict[key] = value: the value is replaced where the key is, or goes last
DictSet(kv, key, value) ==
    IF \E i \in 1..Len(kv) : kv[i].k = key
    THEN [i \in 1..Len(kv) |-> IF kv[i].k = key THEN [k |-> key, v |-> value] ELSE kv[i]]
    ELSE Append(kv, [k |-> key, v |-> value])

RECURSIVE rename_keys(_, _, _)
\* for key in keys: item[re.sub(...)] = item.pop(key), from the i-th key on
rename_keys(kv, keys, i) ==
    IF i > Len(keys) THEN kv
    ELSE LET value == DictGet(PyDict(kv), keys[i])
         IN  rename_keys(DictSet(DictPop(kv, keys[i]), re_sub_key(keys[i]), value),
                         keys, i + 1)

\* keys = [obj for obj in item.keys()] and the renaming loop
normalize_item(item) == PyDict(rename_keys(item.val, DictKeys(item), 1))

\* the three checks made on one element of the list
check_item(item) ==
    IF ~Truthy(item) \/ ~isinstance(item, {"dict"})
    THEN Error("ValueError", "Entity must be a non-empty list of non-empties dictionaries.")
    ELSE IF ~HasKey(item, PartitionKey) \/ ~HasKey(item, RowKey)
    THEN Error("ValueError", "Each dictionary must have the keys PartitionKey and RowKey.")
    ELSE IF ~isinstance(DictGet(item, PartitionKey), {"str"})
    THEN Error("ValueError", "The value for the key PartitionKey must be a non-empty string.")
    ELSE NoError

\* the body of "for item in entity" on st = [err, items]: an element is
\* checked and, if it passes, renamed in place; a failure ends the loop
validate_body(st, idx) ==
    IF st.err # NoError THEN st
    ELSE LET err == check_item(st.items[idx])
         IN  IF err # NoError THEN [st EXCEPT !.err = err]
             ELSE [st EXCEPT !.items[idx] = normalize_item(st.items[idx])]

RECURSIVE for_validate(_, _, _)
\* the loop over the elements lo..hi, in order (halved as for_items is)
for_validate(st, lo, hi) ==
    IF lo > hi THEN st
    ELSE IF lo = hi THEN validate_body(st, lo)
    ELSE LET mid  == (lo + hi) \div 2
             left == for_validate(st, lo, mid)
         IN  IF left.err # NoError THEN left
             ELSE for_validate(left, mid + 1, hi)

\* update_create_entity from its first line to the end of the loop over the
\* entities: [err, entity], the exception raised (or NoError) and the caller's
\* list object as the loop leaves it
validate_entities(ent) ==
    IF ~Truthy(ent) \/ ~isinstance(ent, {"list"})
    THEN [err |-> Error("ValueError",
                        "Entity must be a non-empty list of non-empties dictionaries."),
          entity |-> ent]
    ELSE LET st == for_validate([err |-> NoError, items |-> ent.val], 1, Len(ent.val))
         IN  [err |-> st.err, entity |-> PyList(st.items)]

\* delete_entity: the check of the keys
check_keys(partition_key, row_key) ==
    IF ~Truthy(partition_key)
       \/ ~(isinstance(partition_key, {"str"}) /\ isinstance(row_key, {"str"}))
    THEN Error("ValueError", "Table, PartitionKey and RowKey must be strings")
    ELSE NoError

----------------------------------------------------------------------------
(* The storage service and the Azure SDK, as the facade sees them *)

TableServiceClient == [typ |-> "TableServiceClient", val |-> <<>>]
ItemPaged          == [typ |-> "ItemPaged", val |-> <<>>]

\* the failures the SDK reports for any call: the service answered with an
\* error, or it could not be reached
TransportErrors == {"HttpResponseError", "ServiceRequestError"}

RECURSIVE SeqOf(_)
\* the elements of a finite set, in some order
SeqOf(S) == IF S = {} THEN <<>>
            ELSE LET x == CHOOSE x \in S : TRUE IN <<x>> \o SeqOf(S \ {x})

\* one entry of the history of the calls made on the SDK
Request(c, api, table, body, outcome) ==
    [client |-> c, api |-> api, table |-> table, body |-> body, outcome |-> outcome]

\* the exception the SDK raises for an outcome other than "ok"
SdkError(outcome) == IF outcome = "ok" THEN NoError ELSE Error(outcome, "service")

----------------------------------------------------------------------------
(* The handlers of the facade *)

\* A plausible slip of the handler below: every failure of the creation is swallowed.
table_exists_swallow_all(e) == NoError

\* A plausible slip of the handler below: nothing is swallowed.
table_exists_swallow_none(e) == e

\* update_create_entity: try: self.create_table(...) except ResourceExistsError: ...
\* gives NoError when the exception is swallowed, else the exception that goes on
table_exists_handler(e) ==
    IF Catches({"ResourceExistsError"}, e) THEN NoError ELSE e

\* A plausible slip of the test below: the list is obtained but not looked at.
table_not_found_unchecked(table_name, listed) == FALSE

\* delete_table, delete_entity, select_entity: "if table_name not in tables",
\* tables being the list of names get_table_names returned
table_not_found(table_name, listed) ==
    ~\E i \in 1..Len(listed) : PyStr(listed[i]) = table_name

\* A plausible slip of the handler below: the failure is ignored and the loop goes on.
transaction_failed_ignored(e) == NoError

\* update_create_entity: the handler around table_client.submit_transaction(batch)
transaction_failed(e) == reraise(e, "Failed to create entities in the table")

----------------------------------------------------------------------------
(* The arguments the facade is called with *)

Abc == <<"A", "b", "c">>

\* the names of the tables the service may hold at the start
ServiceTables == {Abc}

\* table_name: well formed, starting with a digit, empty, not a string
TableNameArgs == {PyStr(Abc), PyStr(<<"1", "a", "b">>), PyStr(<<>>), PyNone}

Styles == {"positional", "keyword"}

KeyP == Field(PartitionKey, PyStr(<<"P">>))
KeyR == Field(RowKey, PyStr(<<"R">>))

\* the elements hand-made entity lists are made of
ItemArgs ==
    { PyDict(<<KeyP, KeyR, Field(<<"N", "a", "m", "e">>, PyStr(<<"A">>))>>),
      PyDict(<<KeyP, KeyR, Field(<<"a", ".", "b">>, PyInt(1))>>),
      PyDict(<<KeyP, KeyR, Field(<<"a", "[", "b">>, PyInt(1))>>),
      PyDict(<<KeyP, KeyR, Field(<<"a", ".", "b">>, PyInt(1)),
                           Field(<<"a", "_", "b">>, PyInt(2))>>),
      PyDict(<<Field(PartitionKey, PyStr(<<>>)), KeyR>>),
      PyDict(<<Field(PartitionKey, PyInt(7)), KeyR>>),
      PyDict(<<KeyR>>),
      PyDict(<<KeyP>>),
      PyDict(<<>>),
      PyNone }

\* the lists of at most n elements of ItemArgs
ItemLists(n) == UNION {[1..k -> ItemArgs] : k \in 0..n}

\* the sizes of the long lists of valid entities
LongSizes == {BatchLimit, BatchLimit + 1, 150, 2 * BatchLimit, MaxEntities}

\* the calls of update_create_entity: hand-made lists and values that are no
\* list with every table name and calling style, and long lists of valid
\* entities for a well-formed name
UpsertCalls ==
    {MakeCall("update_create_entity", style, <<t, e, m>>) :
        style \in Styles, t \in TableNameArgs, m \in Modes,
        e \in {PyList(l) : l \in ItemLists(MaxItems)} \cup {PyNone, KeyP.v}}
    \cup
    {MakeCall("update_create_entity", "keyword", <<PyStr(Abc), PyList(Rows(n)), m>>) :
        n \in LongSizes, m \in Modes}

DeleteEntityCalls ==
    {MakeCall("delete_entity", style, <<t, pk, rk>>) :
        style \in Styles, t \in TableNameArgs,
        pk \in {PyStr(<<"P">>), PyStr(<<>>), PyInt(7)},
        rk \in {PyStr(<<"R">>), PyStr(<<>>), PyInt(7)}}

SelectEntityCalls ==
    {MakeCall("select_entity", style, <<t, PyStr(<<"A", "g", "e", " ", "g", "e", " ", "2", "1", " ">>)>>) :
        style \in Styles, t \in TableNameArgs}

\* the calls of a method of one parameter, table_name: every name in both
\* styles, and the call that leaves the argument out
TableCalls(op) ==
    {MakeCall(op, style, <<t>>) : style \in Styles, t \in TableNameArgs}
    \cup {MakeCall(op, "positional", <<>>)}

\* a name of n letters
LongName(n) == [i \in 1..n |-> "a"]

\* more names for create_table: two letters, the longest name allowed and one
\* letter more, a hyphen inside, and names ended by a line break
CreateTableNameArgs ==
    {PyStr(<<"a", "b">>), PyStr(LongName(63)), PyStr(LongName(64)),
     PyStr(<<"a", "-", "b">>), PyStr(Abc \o <<"\n">>),
     PyStr(LongName(63) \o <<"\n">>), PyStr(<<"\n", "a", "b", "c">>)}

CreateTableCalls ==
    TableCalls("create_table")
    \cup {MakeCall("create_table", style, <<t>>) :
             style \in Styles, t \in CreateTableNameArgs}

----------------------------------------------------------------------------
(* The facade's operations, cut at the calls they make on the SDK *)

\* the call of client c ends: it raises err, or returns ret when err is NoError
Finish(c, err, ret) ==
    /\ pc' = [pc EXCEPT ![c] = "done"]
    /\ raised' = [raised EXCEPT ![c] = err]
    /\ returned' = [returned EXCEPT ![c] = ret]

\* the call of client c goes on to its next call on the SDK
Goto(c, label) ==
    /\ pc' = [pc EXCEPT ![c] = label]
    /\ UNCHANGED <<raised, returned>>

\* AzureStorageTableClient.__init__, with create_connection and _get_credential
Construct(c) ==
    /\ pc[c] = "new"
    /\ \E account_name \in {PyNone, PyStr(<<"a">>)}, access_key \in {PyNone, PyStr(<<"k">>)} :
         IF account_name = PyNone \/ access_key = PyNone
         THEN /\ pc' = [pc EXCEPT ![c] = "unconstructed"]
              /\ raised' = [raised EXCEPT ![c] =
                     Error("Exception", "Both [account_name] and [access_key] must be provided.")]
              /\ UNCHANGED table_service_client
         ELSE /\ pc' = [pc EXCEPT ![c] = "idle"]
              /\ table_service_client' =
                     [table_service_client EXCEPT ![c] = TableServiceClient]
              /\ UNCHANGED raised
    /\ UNCHANGED <<tables, committed, requests, call, entity, names, batchs, sent,
                   returned, varsBatch, varsQuery>>

\* a call of get_table_names, create_table, delete_table or select_entity, up
\* to its first call on the SDK
Call_simple(c, op, cl) ==
    /\ pc[c] = "idle"
    /\ call' = [call EXCEPT ![c] = cl]
    /\ LET dec   == decorated(op, table_service_client[c], cl.args, cl.kwargs)
           inner == IF op = "create_table"
                    THEN create_table_checks(table_service_client[c], cl)
                    ELSE decorated("get_table_names", table_service_client[c], <<>>, <<>>)
       IN  IF dec # NoError THEN Finish(c, dec, PyNone)
           ELSE IF inner # NoError THEN Finish(c, inner, PyNone)
           ELSE Goto(c, IF op = "create_table" THEN "create_table" ELSE "list_tables")
    /\ UNCHANGED <<tables, committed, requests, table_service_client, entity,
                   names, batchs, sent, varsBatch, varsQuery>>

Call_get_table_names(c) ==
    Call_simple(c, "get_table_names", MakeCall("get_table_names", "positional", <<>>))

Call_create_table(c) ==
    \E cl \in CreateTableCalls : Call_simple(c, "create_table", cl)

Call_delete_table(c) ==
    \E cl \in TableCalls("delete_table") : Call_simple(c, "delete_table", cl)

Call_select_entity(c) ==
    \E cl \in SelectEntityCalls : Call_simple(c, "select_entity", cl)

\* delete_entity up to get_table_names' request
Call_delete_entity(c) ==
    /\ pc[c] = "idle"
    /\ \E cl \in DeleteEntityCalls :
         /\ call' = [call EXCEPT ![c] = cl]
         /\ LET dec == decorated("delete_entity", table_service_client[c], cl.args, cl.kwargs)
                inner == decorated("get_table_names", table_service_client[c], <<>>, <<>>)
            IN  IF dec # NoError THEN Finish(c, dec, PyNone)
                ELSE LET keys == check_keys(Arg(cl, "partition_key"), Arg(cl, "row_key"))
                     IN  IF keys # NoError THEN Finish(c, keys, PyNone)
                         ELSE IF inner # NoError THEN Finish(c, inner, PyNone)
                         ELSE Goto(c, "list_tables")
    /\ UNCHANGED <<tables, committed, requests, table_service_client, entity,
                   names, batchs, sent, varsBatch, varsQuery>>

\* update_create_entity up to create_table's request: the decorators, the
\* loop over the entities (which renames their fields in the caller's list),
\* then create_table's own checks, inside the try that swallows "exists"
update_create_entity(c, cl) ==
    /\ pc[c] = "idle"
    /\ call' = [call EXCEPT ![c] = cl]
    /\ LET dec == decorated("update_create_entity", table_service_client[c],
                            cl.args, cl.kwargs)
       IN  IF dec # NoError
           THEN /\ Finish(c, dec, PyNone)
                /\ entity' = [entity EXCEPT ![c] = Arg(cl, "entity")]
           ELSE LET v == validate_entities(Arg(cl, "entity"))
                    created == create_table_checks(table_service_client[c],
                                   InnerCall("create_table", Arg(cl, "table_name")))
                    left == IF created = NoError THEN NoError
                            ELSE table_exists_handler(created)
                IN  /\ entity' = [entity EXCEPT ![c] = v.entity]
                    /\ IF v.err # NoError THEN Finish(c, v.err, PyNone)
                       ELSE IF left # NoError THEN Finish(c, left, PyNone)
                       ELSE IF created # NoError THEN Goto(c, "get_table_client")
                       ELSE Goto(c, "create_table")
    /\ UNCHANGED <<tables, committed, requests, table_service_client,
                   names, batchs, sent, varsBatch, varsQuery>>

Call_update_create_entity(c) ==
    /\ pc[c] = "idle"
    /\ \E cl \in UpsertCalls : update_create_entity(c, cl)

\* self.table_service_client.list_tables() in get_table_names, and what the
\* caller of get_table_names does with the names
Sdk_list_tables(c) ==
    /\ pc[c] = "list_tables"
    /\ \E outcome \in {"ok"} \cup TransportErrors :
         LET listed == IF outcome = "ok" THEN SeqOf(tables) ELSE <<>>
             err    == reraise(SdkError(outcome), "Failed to retrieve the table names")
             t      == Arg(call[c], "table_name")
         IN  /\ requests' = Append(requests, Request(c, "list_tables", <<>>, <<>>, outcome))
             /\ names' = [names EXCEPT ![c] = listed]
             /\ IF err # NoError THEN Finish(c, err, PyNone)
                ELSE IF call[c].op = "get_table_names"
                THEN Finish(c, NoError, PyList([i \in 1..Len(listed) |-> PyStr(listed[i])]))
                ELSE IF table_not_found(t, listed)
                THEN Finish(c, Error("ValueError", "not found."), PyNone)
                ELSE Goto(c, IF call[c].op = "delete_table" THEN "delete_table"
                             ELSE "get_table_client")
    /\ UNCHANGED <<tables, committed, table_service_client, call, entity, batchs,
                   sent, varsBatch, varsQuery>>

\* self.table_service_client.create_table(table_name=table_name) in
\* create_table, its handler, and the try of update_create_entity around it
Sdk_create_table(c) ==
    /\ pc[c] = "create_table"
    /\ LET t == Arg(call[c], "table_name").val
       IN  \E outcome \in (IF t \in tables THEN {"ResourceExistsError"} ELSE {"ok"})
                          \cup TransportErrors :
             LET err == reraise(SdkError(outcome), "Failed to create table")
             IN  /\ requests' = Append(requests, Request(c, "create_table", t, <<>>, outcome))
                 /\ tables' = IF outcome = "ok" THEN tables \cup {t} ELSE tables
                 /\ IF call[c].op = "create_table"
                    THEN Finish(c, err, IF err = NoError THEN PyBool(TRUE) ELSE PyNone)
                    ELSE IF err # NoError /\ table_exists_handler(err) # NoError
                    THEN Finish(c, table_exists_handler(err), PyNone)
                    ELSE Goto(c, "get_table_client")
    /\ UNCHANGED <<committed, table_service_client, call, entity, names, batchs,
                   sent, varsBatch, varsQuery>>

\* self.table_service_client.get_table_client(table_name=table_name) and its
\* handler; in update_create_entity, create_entity_batch follows
Sdk_get_table_client(c) ==
    /\ pc[c] = "get_table_client"
    /\ \E outcome \in {"ok"} \cup TransportErrors :
         LET t     == Arg(call[c], "table_name").val
             err   == reraise(SdkError(outcome), "Failed to get a Table Client for the table")
             built == create_entity_batch(Arg(call[c], "mode"), entity[c].val)
             op    == call[c].op
         IN  /\ requests' = Append(requests, Request(c, "get_table_client", t, <<>>, outcome))
             /\ IF err # NoError
                THEN Finish(c, err, PyNone) /\ UNCHANGED <<batchs, sent>>
                ELSE IF op = "update_create_entity"
                THEN /\ batchs' = [batchs EXCEPT ![c] = built]
                     /\ sent' = [sent EXCEPT ![c] = 0]
                     /\ IF built = <<>> THEN Finish(c, NoError, PyNone)
                        ELSE Goto(c, "submit_transaction")
                ELSE /\ Goto(c, IF op = "delete_entity" THEN "delete_entity"
                                ELSE "query_entities")
                     /\ UNCHANGED <<batchs, sent>>
    /\ UNCHANGED <<tables, committed, table_service_client, call, entity, names,
                   varsBatch, varsQuery>>

\* one turn of "for batch in batchs": table_client.submit_transaction(batch)
\* and its handler
Sdk_submit_transaction(c) ==
    /\ pc[c] = "submit_transaction"
    /\ \E outcome \in {"ok"} \cup TransportErrors :
         LET t     == Arg(call[c], "table_name").val
             batch == batchs[c][sent[c] + 1]
             err   == IF outcome = "ok" THEN NoError
                      ELSE transaction_failed(SdkError(outcome))
         IN  /\ requests' = Append(requests,
                               Request(c, "submit_transaction", t, batch, outcome))
             /\ committed' = IF outcome = "ok"
                             THEN Append(committed, [client |-> c, table |-> t, batch |-> batch])
                             ELSE committed
             /\ IF err # NoError
                THEN Finish(c, err, PyNone) /\ UNCHANGED sent
                ELSE /\ sent' = [sent EXCEPT ![c] = sent[c] + 1]
                     /\ IF sent[c] + 1 = Len(batchs[c]) THEN Finish(c, NoError, PyNone)
                        ELSE Goto(c, "submit_transaction")
    /\ UNCHANGED <<tables, table_service_client, call, entity, names, batchs,
                   varsBatch, varsQuery>>

\* self.table_service_client.delete_table(table_name=table_name) and its handler
Sdk_delete_table(c) ==
    /\ pc[c] = "delete_table"
    /\ \E outcome \in {"ok"} \cup TransportErrors :
         LET t   == Arg(call[c], "table_name").val
             err == reraise(SdkError(outcome), "Failed to delete table")
         IN  /\ requests' = Append(requests, Request(c, "delete_table", t, <<>>, outcome))
             /\ tables' = IF outcome = "ok" THEN tables \ {t} ELSE tables
             /\ Finish(c, err, IF err = NoError THEN PyBool(TRUE) ELSE PyNone)
    /\ UNCHANGED <<committed, table_service_client, call, entity, names, batchs,
                   sent, varsBatch, varsQuery>>

\* table_client.delete_entity(partition_key=..., row_key=...) and its handler
Sdk_delete_entity(c) ==
    /\ pc[c] = "delete_entity"
    /\ \E outcome \in {"ok"} \cup TransportErrors :
         LET t   == Arg(call[c], "table_name").val
             key == <<Arg(call[c], "partition_key"), Arg(call[c], "row_key")>>
             err == reraise(SdkError(outcome), "Failed to delete entity")
         IN  /\ requests' = Append(requests, Request(c, "delete_entity", t, key, outcome))
             /\ Finish(c, err, IF err = NoError THEN PyBool(TRUE) ELSE PyNone)
    /\ UNCHANGED <<tables, committed, table_service_client, call, entity, names,
                   batchs, sent, varsBatch, varsQuery>>

\* table_client.query_entities(query_filter=..., ...) and its handler
Sdk_query_entities(c) ==
    /\ pc[c] = "query_entities"
    /\ \E outcome \in {"ok"} \cup TransportErrors :
         LET t   == Arg(call[c], "table_name").val
             err == reraise(SdkError(outcome), "Failed to delete entity from the table")
         IN  /\ requests' = Append(requests,
                   Request(c, "query_entities", t, <<Arg(call[c], "query_filter")>>, outcome))
             /\ Finish(c, err, IF err = NoError THEN ItemPaged ELSE PyNone)
    /\ UNCHANGED <<tables, committed, table_service_client, call, entity, names,
                   batchs, sent, varsBatch, varsQuery>>

----------------------------------------------------------------------------
(* The states of the parts a specification leaves alone *)

HeapOff  == heap = EmptyHeap /\ frame = NoFrame
BatchOff ==
    /\ bb_pc = "off" /\ bb_mode = PyStr(Merge) /\ bb_entity = <<>> /\ bb_batch = <<>>
    /\ HeapOff
QueryOff == q_query = <<>> /\ q_calls = <<>> /\ q_ret = PyNone
FacadeOff ==
    /\ tables = {} /\ committed = <<>> /\ requests = <<>>
    /\ table_service_client = [c \in Clients |-> PyNone]
    /\ pc = [c \in Clients |-> "off"]
    /\ call = [c \in Clients |-> NoCall]
    /\ entity = [c \in Clients |-> PyNone]
    /\ names = [c \in Clients |-> <<>>]
    /\ batchs = [c \in Clients |-> <<>>]
    /\ sent = [c \in Clients |-> 0]
    /\ raised = [c \in Clients |-> NoError]
    /\ returned = [c \in Clients |-> PyNone]

----------------------------------------------------------------------------
(* SpecBatch: create_entity_batch applied to entity lists of every length *)

InitBatch ==
    /\ bb_pc = "input"
    /\ bb_mode \in Modes
    /\ bb_entity \in {Rows(n) : n \in 0..MaxEntities}
    /\ bb_batch = <<>>
    /\ HeapOff
    /\ QueryOff /\ FacadeOff

Build ==
    /\ bb_pc = "input"
    /\ bb_batch' = create_entity_batch(bb_mode, bb_entity)
    /\ bb_pc' = "built"
    /\ UNCHANGED <<bb_mode, bb_entity, heap, frame, varsQuery, varsFacade>>

NextBatch == Build
SpecBatch == InitBatch /\ [][NextBatch]_vars

----------------------------------------------------------------------------
(* SpecSnapshot: create_entity_batch run turn by turn on the objects of a   *)
(* heap, and a caller that changes its records once the batches are built   *)

\* the lengths of the lists given: one batch, a full batch, and more
SnapshotSizes == {1, 2, BatchLimit, BatchLimit + 1, BatchLimit + 2}

\* the caller's list holds the dicts at the addresses 1..n, the i-th equal to
\* Row(i); when shared, its last element is the first dict once more.
\* count = 0, batch = [], temp_batch = [] (a new list, at address n + 1)
InitSnapshot ==
    /\ \E n \in SnapshotSizes, mode \in Modes, shared \in BOOLEAN :
         /\ heap = [a \in 1..(n + 1) |-> IF a <= n THEN Row(a) ELSE PyList(<<>>)]
         /\ frame = [pc |-> "loop", mode |-> mode,
                     entity |-> [i \in 1..n |-> IF shared /\ i = n THEN 1 ELSE i],
                     idx |-> 0, count |-> 0, temp_batch |-> n + 1, batch |-> <<>>]
    /\ bb_pc = "off" /\ bb_mode = PyStr(Merge) /\ bb_entity = <<>> /\ bb_batch = <<>>
    /\ QueryOff /\ FacadeOff

\* the field the caller adds to a record of its own after the build
Touched == Field(<<"a">>, PyInt(1))

\* after the build the caller changes one of the records it gave, the first
\* or the last of its list: item['a'] = 1
Caller_mutates ==
    /\ frame.pc = "returned"
    /\ \E a \in {frame.entity[1], frame.entity[Len(frame.entity)]} :
         /\ ~HasKey(heap[a], Touched.k)
         /\ heap' = [heap EXCEPT ![a] = PyDict(DictSet(heap[a].val, Touched.k, Touched.v))]
    /\ UNCHANGED <<frame, bb_pc, bb_mode, bb_entity, bb_batch, varsQuery, varsFacade>>

NextSnapshot ==
    \/ Iterate
    \/ Caller_mutates
SpecSnapshot == InitSnapshot /\ [][NextSnapshot]_vars

----------------------------------------------------------------------------
(* SpecQuery: a QueryBuilder driven by chains of at most MaxCalls calls *)

\* QueryBuilder.__init__
InitQuery == QueryOff /\ BatchOff /\ FacadeOff

NextQuery ==
    \/ Do_set_column
    \/ Do_set_value
    \/ Do_set_value_datetime
    \/ Do_set_operator
    \/ Do_get_query
SpecQuery == InitQuery /\ [][NextQuery]_vars

----------------------------------------------------------------------------
(* Spec: one client, constructed and then making one call on the facade, on *)
(* a service that holds any of ServiceTables                                *)

Init ==
    /\ tables \in SUBSET ServiceTables
    /\ committed = <<>> /\ requests = <<>>
    /\ table_service_client = [c \in Clients |-> PyNone]
    /\ pc = [c \in Clients |-> IF c = 1 THEN "new" ELSE "off"]
    /\ call = [c \in Clients |-> NoCall]
    /\ entity = [c \in Clients |-> PyNone]
    /\ names = [c \in Clients |-> <<>>]
    /\ batchs = [c \in Clients |-> <<>>]
    /\ sent = [c \in Clients |-> 0]
    /\ raised = [c \in Clients |-> NoError]
    /\ returned = [c \in Clients |-> PyNone]
    /\ BatchOff /\ QueryOff

Next ==
    \E c \in Clients :
        \/ Construct(c)
        \/ Call_get_table_names(c)
        \/ Call_create_table(c)
        \/ Call_delete_table(c)
        \/ Call_update_create_entity(c)
        \/ Call_delete_entity(c)
        \/ Call_select_entity(c)
        \/ Sdk_list_tables(c)
        \/ Sdk_create_table(c)
        \/ Sdk_get_table_client(c)
        \/ Sdk_submit_transaction(c)
        \/ Sdk_delete_table(c)
        \/ Sdk_delete_entity(c)
        \/ Sdk_query_entities(c)

Spec == Init /\ [][Next]_vars

----------------------------------------------------------------------------
(* SpecRace: two clients of one service, each constructed and then making   *)
(* one call, update_create_entity with valid entities or delete_table, for  *)
(* the same well-formed table name; their calls on the SDK interleave       *)

\* the lengths of the lists of valid entities: one batch, two batches
RaceSizes == {1, BatchLimit + 1}

RaceUpsertCalls ==
    {MakeCall("update_create_entity", "keyword", <<PyStr(Abc), PyList(Rows(n)), PyStr(Merge)>>) :
        n \in RaceSizes}

RaceDeleteCalls == {MakeCall("delete_table", "keyword", <<PyStr(Abc)>>)}

InitRace ==
    /\ tables \in SUBSET ServiceTables
    /\ committed = <<>> /\ requests = <<>>
    /\ table_service_client = [c \in Clients |-> PyNone]
    /\ pc = [c \in Clients |-> "new"]
    /\ call = [c \in Clients |-> NoCall]
    /\ entity = [c \in Clients |-> PyNone]
    /\ names = [c \in Clients |-> <<>>]
    /\ batchs = [c \in Clients |-> <<>>]
    /\ sent = [c \in Clients |-> 0]
    /\ raised = [c \in Clients |-> NoError]
    /\ returned = [c \in Clients |-> PyNone]
    /\ BatchOff /\ QueryOff

Race_update_create_entity(c) ==
    /\ pc[c] = "idle"
    /\ \E cl \in RaceUpsertCalls : update_create_entity(c, cl)

Race_delete_table(c) ==
    \E cl \in RaceDeleteCalls : Call_simple(c, "delete_table", cl)

NextRace ==
    \E c \in Clients :
        \/ Construct(c)
        \/ Race_update_create_entity(c)
        \/ Race_delete_table(c)
        \/ Sdk_list_tables(c)
        \/ Sdk_create_table(c)
        \/ Sdk_get_table_client(c)
        \/ Sdk_submit_transaction(c)
        \/ Sdk_delete_table(c)

SpecRace == InitRace /\ [][NextRace]_vars

----------------------------------------------------------------------------
(* Helpers of the properties *)

RECURSIVE ConcatAll(_)
\* the concatenation of a sequence of sequences
ConcatAll(ss) == IF ss = <<>> THEN <<>> ELSE Head(ss) \o ConcatAll(Tail(ss))

\* the entities of a list of batches, in order
EntitiesOf(bs) == LET ops == ConcatAll(bs) IN [i \in 1..Len(ops) |-> ops[i].entity]

IsPrefix(s, t) == Len(s) <= Len(t) /\ SubSeq(t, 1, Len(s)) = s
EndsWith(s, t) == Len(t) <= Len(s) /\ SubSeq(s, Len(s) - Len(t) + 1, Len(s)) = t

\* the positions of the spaces of a text, and its k-th space-terminated token
Spaces(q) == {i \in 1..Len(q) : q[i] = " "}
NthSpace(q, k) ==
    IF k = 0 THEN 0
    ELSE CHOOSE i \in Spaces(q) : Cardinality({j \in Spaces(q) : j < i}) = k - 1
Token(q, k) == SubSeq(q, NthSpace(q, k - 1) + 1, NthSpace(q, k) - 1)

----------------------------------------------------------------------------
(* C1 *)

\* C1: for an entity list of length N, create_entity_batch returns no batch
\* when N = 0 and otherwise ceil(N/100) batches, all of 100 operations but the
\* last, which has N mod 100 (100 when N is a multiple of 100); no batch is
\* empty, and the batches' entities, concatenated, are the input in its order.
C1_BatchPartition ==
    bb_pc = "built" =>
        LET N == Len(bb_entity)
            B == bb_batch
        IN  /\ N = 0 => B = <<>>
            /\ N > 0 =>
                 /\ Len(B) = (N + 99) \div 100
                 /\ \A i \in 1..(Len(B) - 1) : Len(B[i]) = 100
                 /\ Len(B[Len(B)]) = IF N % 100 = 0 THEN 100 ELSE N % 100
            /\ \A i \in 1..Len(B) : Len(B[i]) > 0
            /\ EntitiesOf(B) = bb_entity

\* 101 entities were built into two batches, of 100 and of 1
C1_Witness ==
    /\ bb_pc = "built"
    /\ Len(bb_entity) = 101
    /\ Len(bb_batch) = 2
    /\ Len(bb_batch[1]) = 100
    /\ Len(bb_batch[2]) = 1

----------------------------------------------------------------------------
(* C2 .. C8: update_create_entity and the other operations of the facade *)

\* the calls client c has made on the SDK, in order, and those that submit
Reqs(c)    == SelectSeq(requests, LAMBDA r : r.client = c)
Submits(c) == SelectSeq(requests, LAMBDA r : r.client = c /\ r.api = "submit_transaction")
Bodies(rs) == [i \in 1..Len(rs) |-> rs[i].body]

\* client c is in, or has ended, a call of update_create_entity
Upserting(c) == call[c].op = "update_create_entity"
Ended(c)     == pc[c] = "done"

\* the entity argument as the caller passed it
GivenEntity(c) == Arg(call[c], "entity")

\* C2: the batches are submitted one at a time, in input order, each once; a
\* failed transaction is the last one submitted, the batches before it were
\* all submitted successfully and stay committed, and the call ends with the
\* error; nothing committed is ever taken back.
C2_SequentialSubmission ==
    /\ [](\A c \in Clients : Upserting(c) =>
            LET S == Submits(c)
                n == Len(S)
            IN  /\ n <= Len(batchs[c])
                /\ \A i \in 1..n : S[i].body = batchs[c][i]
                /\ IsPrefix(EntitiesOf(Bodies(S)), entity[c].val)
                /\ \A i \in 1..(n - 1) : S[i].outcome = "ok"
                /\ (n > 0 /\ S[n].outcome # "ok") =>
                       /\ Ended(c)
                       /\ raised[c].cls = S[n].outcome
                /\ SelectSeq(committed, LAMBDA t : t.client = c)
                     = [i \in 1..Len(SelectSeq(S, LAMBDA r : r.outcome = "ok")) |->
                           [client |-> c, table |-> S[i].table, batch |-> S[i].body]])
    /\ [][IsPrefix(committed, committed')]_vars

\* of three batches the first was committed and the second failed
C2_Witness ==
    /\ Upserting(1) /\ Ended(1)
    /\ Len(batchs[1]) = 3
    /\ Len(Submits(1)) = 2
    /\ Submits(1)[2].outcome = "HttpResponseError"
    /\ Len(committed) = 1

\* C3: when the table exists already (the creation reports "exists") and
\* nothing else fails, the call ends without an error after exactly ceil(N/100)
\* submissions, of 100 operations each but the last, which together hold the N
\* entities in input order, every operation an upsert with the caller's mode.
C3_ExistingTable ==
    \A c \in Clients :
        LET R == Reqs(c)
            S == Submits(c)
            N == Len(GivenEntity(c).val)
        IN  ( /\ Upserting(c) /\ Ended(c)
              /\ R # <<>>
              /\ R[1].api = "create_table" /\ R[1].outcome = "ResourceExistsError"
              /\ \A i \in 2..Len(R) : R[i].outcome = "ok" )
            => /\ raised[c] = NoError
               /\ Len(S) = (N + 99) \div 100
               /\ \A i \in 1..(Len(S) - 1) : Len(S[i].body) = 100
               /\ Len(S[Len(S)].body) = N - 100 * (Len(S) - 1)
               /\ EntitiesOf(Bodies(S)) = entity[c].val
               /\ \A i \in 1..Len(S) : \A j \in 1..Len(S[i].body) :
                     /\ S[i].body[j].verb = "upsert"
                     /\ S[i].body[j].mode = Arg(call[c], "mode")

\* 150 entities for an existing table went out as 100 and then 50
C3_Witness ==
    /\ Upserting(1) /\ Ended(1) /\ raised[1] = NoError
    /\ Len(GivenEntity(1).val) = 150
    /\ Reqs(1)[1].outcome = "ResourceExistsError"
    /\ Len(Submits(1)) = 2
    /\ Len(Submits(1)[1].body) = 100
    /\ Len(Submits(1)[2].body) = 50

\* C4: a creation that fails otherwise than with "exists" - the service or the
\* transport fails, or the name is malformed - ends the call with that failure,
\* and no transaction is submitted.
C4_CreationFailurePropagates ==
    \A c \in Clients : Upserting(c) =>
        LET R == Reqs(c)
            t == Arg(call[c], "table_name")
        IN  /\ ( /\ R # <<>>
                 /\ R[1].api = "create_table"
                 /\ R[1].outcome \in TransportErrors )
               => /\ Len(R) = 1
                  /\ Ended(c)
                  /\ raised[c].cls = R[1].outcome
            /\ ( /\ Ended(c)
                 /\ decorated(call[c].op, table_service_client[c],
                              call[c].args, call[c].kwargs) = NoError
                 /\ validate_entities(GivenEntity(c)).err = NoError
                 /\ ~table_name_match(t.val) )
               => /\ raised[c].cls = "ValueError"
                  /\ R = <<>>

\* the creation failed with a connectivity error, which ended the call
C4_Witness ==
    /\ Upserting(1) /\ Ended(1)
    /\ Len(Reqs(1)) = 1
    /\ Reqs(1)[1].api = "create_table"
    /\ Reqs(1)[1].outcome = "ServiceRequestError"
    /\ raised[1].cls = "ServiceRequestError"

\* an exception that reports a precondition: the connection is not set, or an
\* argument is invalid (a ValueError other than that of a table not found)
IsPreconditionFailure(e) ==
    \/ e.cls = "AttributeError"
    \/ e.cls = "ValueError" /\ e.msg # "not found."

\* C5: a call that ends in a precondition failure has made no call on the SDK.
C5_PreconditionBeforeRequest ==
    \A c \in Clients :
        (Ended(c) /\ IsPreconditionFailure(raised[c])) => Reqs(c) = <<>>

\* update_create_entity with valid entities was refused for its table name
C5_Witness ==
    /\ Upserting(1) /\ Ended(1)
    /\ validate_entities(GivenEntity(1)).err = NoError
    /\ raised[1] = Error("ValueError", "Table name must be alphanumeric")
    /\ requests = <<>>

\* an element of the entity list the documentation rejects
BadItem(item) ==
    IF item.typ # "dict" \/ item.val = <<>> THEN TRUE
    ELSE IF ~HasKey(item, PartitionKey) \/ ~HasKey(item, RowKey) THEN TRUE
    ELSE LET p == DictGet(item, PartitionKey)
         IN  p.typ # "str" \/ p.val = <<>>

\* an entity argument the documentation rejects
BadEntityArgument(e) ==
    IF e.typ # "list" \/ e.val = <<>> THEN TRUE
    ELSE \E i \in 1..Len(e.val) : BadItem(e.val[i])

\* C6: update_create_entity fails with a ValueError, and sends nothing, when
\* the entity argument is not a non-empty list, or holds an element that is
\* not a non-empty dict, that lacks PartitionKey or RowKey, or whose
\* PartitionKey is not a non-empty string.
C6_InvalidEntitiesRejected ==
    \A c \in Clients :
        (Upserting(c) /\ Ended(c) /\ BadEntityArgument(GivenEntity(c)))
        => (raised[c].cls = "ValueError" /\ Reqs(c) = <<>>)

\* C7: every field name of every entity of a submitted transaction is made
\* of letters and underscores only.
C7_FieldNamesNormalized ==
    \A i \in 1..Len(requests) : requests[i].api = "submit_transaction" =>
        \A j \in 1..Len(requests[i].body) :
            LET keys == DictKeys(requests[i].body[j].entity)
            IN  \A k \in 1..Len(keys) : \A n \in 1..Len(keys[k]) :
                    IsAlpha(keys[k][n]) \/ keys[k][n] = "_"

\* C8: when update_create_entity ends with a validation error, the caller's
\* entity list is as it was before the call and nothing was sent.
C8_NoPartialEffects ==
    \A c \in Clients :
        (Upserting(c) /\ Ended(c) /\ raised[c].cls = "ValueError")
        => (entity[c] = GivenEntity(c) /\ Reqs(c) = <<>>)

\* the value the caller gave the parameter name, None when it was left out
Passed(cl, name) ==
    LET i == IndexOf(Params(cl.op), name)
    IN  IF i <= Len(cl.args) \/ name \in DOMAIN cl.kwargs THEN Arg(cl, name)
        ELSE PyNone

\* a table name as the documentation of create_table wants it: 3 to 63
\* characters, the first a letter, the others letters or digits
WellNamed(v) ==
    /\ v.typ = "str"
    /\ Len(v.val) >= 3 /\ Len(v.val) <= 63
    /\ IsAlpha(v.val[1])
    /\ \A i \in 2..Len(v.val) : IsAlpha(v.val[i]) \/ Ord(v.val[i]) \in 48..57

\* C11: create_table sends a creation request only for a name of 3 to 63
\* characters that starts with a letter and is alphanumeric throughout; for
\* every other name the call ends with a ValueError and nothing is sent.
C11_TableNameRule ==
    \A c \in Clients : call[c].op = "create_table" =>
        LET t == Passed(call[c], "table_name")
        IN  /\ Reqs(c) # <<>> => WellNamed(t)
            /\ (Ended(c) /\ ~WellNamed(t)) =>
                   (raised[c].cls = "ValueError" /\ Reqs(c) = <<>>)

\* the methods that look the table up before they act on it
NeedsTable == {"delete_table", "delete_entity", "select_entity"}

\* the calls on the SDK that delete or query
ActsOnTable == {"delete_table", "delete_entity", "query_entities"}

\* C12: delete_table, delete_entity and select_entity first obtain the list
\* of tables; when the table name is not in the list the call ends with the
\* ValueError "not found" and no delete or query request is sent; when it is
\* in the list, delete_table sends the delete request next and, the request
\* served, returns True.
C12_NotFound ==
    \A c \in Clients : call[c].op \in NeedsTable =>
        LET R == Reqs(c)
            t == Passed(call[c], "table_name")
            listed == {PyStr(names[c][i]) : i \in 1..Len(names[c])}
        IN  /\ R # <<>> => R[1].api = "list_tables"
            /\ (R # <<>> /\ R[1].outcome = "ok" /\ t \notin listed) =>
                   /\ Ended(c)
                   /\ raised[c] = Error("ValueError", "not found.")
                   /\ \A i \in 1..Len(R) : R[i].api \notin ActsOnTable
            /\ (R # <<>> /\ R[1].outcome = "ok" /\ t \in listed
                     /\ call[c].op = "delete_table") =>
                   \/ pc[c] = "delete_table" /\ Len(R) = 1
                   \/ /\ Ended(c) /\ Len(R) = 2
                      /\ R[2].api = "delete_table" /\ R[2].table = t.val
                      /\ R[2].outcome = "ok" =>
                             (raised[c] = NoError /\ returned[c] = PyBool(TRUE))

\* delete_table of a table the service does not hold ended with "not found"
\* after the list was obtained, and nothing else was sent
C12_Witness ==
    /\ call[1].op = "delete_table" /\ Ended(1)
    /\ Passed(call[1], "table_name") = PyStr(Abc)
    /\ Len(Reqs(1)) = 1
    /\ Reqs(1)[1].api = "list_tables" /\ Reqs(1)[1].outcome = "ok"
    /\ raised[1] = Error("ValueError", "not found.")

\* the call of client c ended with a ValueError of the non-empty-string check
RejectedByCheck(c) ==
    /\ raised[c].cls = "ValueError"
    /\ raised[c].msg \in {"must be a non-empty string.",
                          "Parameter not found in method arguments."}

\* C13: for every method that requires table_name, the non-empty-string
\* check rejects the call exactly when the value given is the empty string,
\* None, left out or not a string, whether it was given by position or by
\* keyword; and a call that reached the SDK passed every check.
C13_NonEmptyStringCheck ==
    \A c \in Clients :
        (Ended(c) /\ IndexOf(Params(call[c].op), "table_name") > 0) =>
            LET v   == Passed(call[c], "table_name")
                bad == v.typ # "str" \/ v.val = <<>>
            IN  /\ bad => (RejectedByCheck(c) /\ Reqs(c) = <<>>)
                /\ ~bad => ~RejectedByCheck(c)
                /\ Reqs(c) # <<>> => (~bad /\ table_service_client[c] # PyNone)

\* the request r of client c failed with "exists" inside the try of
\* update_create_entity, which swallows it
Swallowed(c, r) ==
    /\ call[c].op = "update_create_entity"
    /\ r.api = "create_table"
    /\ r.outcome = "ResourceExistsError"

\* C14: when a call on the SDK fails, and the failure is not the swallowed
\* "exists", the facade call ends there with an exception of the class of the
\* SDK's failure, with a message of the facade, and with that failure as its
\* cause.
C14_ClassificationPreserved ==
    \A c \in Clients :
        LET R == Reqs(c)
        IN  \A i \in 1..Len(R) :
                (R[i].outcome # "ok" /\ ~Swallowed(c, R[i])) =>
                    /\ i = Len(R)
                    /\ Ended(c)
                    /\ raised[c].cls = R[i].outcome
                    /\ raised[c].cause = R[i].outcome
                    /\ raised[c].msg # SdkError(R[i].outcome).msg

\* delete_entity could not reach the service for its last request and ended
\* with a connectivity error caused by it
C14_Witness ==
    /\ call[1].op = "delete_entity" /\ Ended(1)
    /\ Len(Reqs(1)) = 3
    /\ Reqs(1)[3].api = "delete_entity"
    /\ Reqs(1)[3].outcome = "ServiceRequestError"
    /\ raised[1] = [cls |-> "ServiceRequestError", msg |-> "Failed to delete entity",
                    cause |-> "ServiceRequestError"]

\* how many fields of the dict d have the value v
CountValue(d, v) == Cardinality({j \in 1..Len(d.val) : d.val[j].v = v})

\* the dict after has as many fields as the dict before, with the same
\* values, and still has PartitionKey and RowKey
Renamed(before, after) ==
    /\ Len(after.val) = Len(before.val)
    /\ \A j \in 1..Len(before.val) :
          CountValue(after, before.val[j].v) = CountValue(before, before.val[j].v)
    /\ HasKey(after, PartitionKey) /\ HasKey(after, RowKey)

\* C16: whatever update_create_entity did to a valid entity of the caller's
\* list, the entity has the fields it had, under their new names: as many
\* fields, the same values, PartitionKey and RowKey among them.
C16_PureRenaming ==
    \A c \in Clients :
        (Upserting(c) /\ GivenEntity(c).typ = "list") =>
            \A i \in 1..Len(GivenEntity(c).val) :
                ~BadItem(GivenEntity(c).val[i]) =>
                    Renamed(GivenEntity(c).val[i], entity[c].val[i])

----------------------------------------------------------------------------
(* C15 *)

\* what the list at address a holds: its operations, each with the dict it
\* holds in place of the dict's address
Contents(h, a) ==
    [j \in 1..Len(h[a].val) |-> [h[a].val[j] EXCEPT !.entity = h[h[a].val[j].entity]]]

\* C15: every batch placed in the result holds, from then on, the operations
\* it was sealed with - the records as the caller gave them, in input order,
\* with the caller's mode - whatever is cleared, appended or changed after.
C15_SealedSnapshot ==
    \A i \in 1..Len(frame.batch) :
        LET B == Contents(heap, frame.batch[i])
            before == (i - 1) * BatchLimit
            size == IF frame.idx - before < BatchLimit THEN frame.idx - before
                    ELSE BatchLimit
        IN  /\ Len(B) = size
            /\ \A j \in 1..Len(B) :
                  B[j] = Operation(Row(frame.entity[before + j]), frame.mode)

\* a full batch was sealed, the group went on to take two more records, and
\* the caller then changed the first and the last record it gave
C15_Witness ==
    /\ frame.pc = "returned"
    /\ Len(frame.entity) = BatchLimit + 2
    /\ Len(frame.batch) = 2
    /\ HasKey(heap[frame.entity[1]], <<"a">>)
    /\ HasKey(heap[frame.entity[Len(frame.entity)]], <<"a">>)
    /\ Len(Contents(heap, frame.batch[1])) = BatchLimit
    /\ Len(Contents(heap, frame.batch[2])) = 2

----------------------------------------------------------------------------
(* C17, C18: two clients *)

\* no call of client c on the SDK failed, but for the swallowed "exists"
NoOtherFailure(c) ==
    \A i \in 1..Len(Reqs(c)) :
        Reqs(c)[i].outcome = "ok" \/ Swallowed(c, Reqs(c)[i])

\* the creation requests the service received, in order
Creates == SelectSeq(requests, LAMBDA r : r.api = "create_table")

\* C17: when both clients have called update_create_entity with valid
\* entities for a table that did not exist (the first creation request was
\* served) and nothing else failed, the other client's creation got "exists",
\* both calls ended without an error, and each client's batches were all
\* submitted and committed, in the order of its list.
C17_CreationRace ==
    ( /\ \A c \in Clients : Upserting(c) /\ Ended(c) /\ NoOtherFailure(c)
      /\ Creates # <<>> /\ Creates[1].outcome = "ok" )
    => /\ Len(Creates) = 2
       /\ Creates[2].outcome = "ResourceExistsError"
       /\ Creates[2].client # Creates[1].client
       /\ \A c \in Clients :
            /\ raised[c] = NoError
            /\ EntitiesOf(Bodies(Submits(c))) = GivenEntity(c).val
            /\ \A i \in 1..Len(Submits(c)) :
                  Len(Submits(c)[i].body) <= BatchLimit
            /\ LET mine == SelectSeq(committed, LAMBDA t : t.client = c)
               IN  [i \in 1..Len(mine) |-> mine[i].batch] = Bodies(Submits(c))

\* client 2 created the table, client 1 got "exists", and both submitted
\* their two batches, client 2's first batch between those of client 1
C17_Witness ==
    /\ \A c \in Clients : Upserting(c) /\ Ended(c) /\ raised[c] = NoError
    /\ Creates[1].client = 2 /\ Creates[1].outcome = "ok"
    /\ Creates[2].client = 1 /\ Creates[2].outcome = "ResourceExistsError"
    /\ Len(Submits(1)) = 2 /\ Len(Submits(2)) = 2
    /\ Len(committed) = 4
    /\ committed[1].client = 1 /\ committed[2].client = 2 /\ committed[3].client = 1

\* C18 as stated: in the step in which delete_table sends its delete
\* request, the service holds the table.
C18_DeleteCheckAtomic ==
    [][\A c \in Clients :
          (pc[c] = "delete_table" /\ pc'[c] # "delete_table")
          => Arg(call[c], "table_name").val \in tables]_vars

\* C18, amended: delete_table sends its delete request only as its second
\* call on the SDK, after a list of tables that was served and that names the
\* table, and the service held the table in the step that served the list.
C18_DeleteOnlyListed ==
    /\ [](\A c \in Clients : call[c].op = "delete_table" =>
            \A i \in 1..Len(Reqs(c)) : Reqs(c)[i].api = "delete_table" =>
                /\ i = 2
                /\ Reqs(c)[1].api = "list_tables" /\ Reqs(c)[1].outcome = "ok"
                /\ \E k \in 1..Len(names[c]) : names[c][k] = Reqs(c)[i].table)
    /\ [][\A c \in Clients :
            (pc[c] = "list_tables" /\ pc'[c] = "delete_table")
            => Arg(call[c], "table_name").val \in tables]_vars

\* both clients listed the table, client 1 deleted it, and client 2 then sent
\* its delete request for the table the service no longer held
C18_Witness ==
    /\ \A c \in Clients : call[c].op = "delete_table" /\ Ended(c)
    /\ Len(requests) = 4
    /\ requests[1].api = "list_tables" /\ requests[1].outcome = "ok"
    /\ requests[2].api = "list_tables" /\ requests[2].outcome = "ok"
    /\ requests[3].api = "delete_table" /\ requests[3].client = 1
    /\ requests[3].outcome = "ok"
    /\ requests[4].api = "delete_table" /\ requests[4].client = 2
    /\ tables = {}

----------------------------------------------------------------------------
(* C9, C10 *)

TrueText  == <<"t", "r", "u", "e">>
FalseText == <<"f", "a", "l", "s", "e">>

\* the literal the documentation of set_value gives a value
LiteralOf(v) ==
    CASE v.typ = "str"  -> <<"'">> \o v.val \o <<"'">>
      [] v.typ = "int"  -> ToDecimal(v.val)
      [] v.typ = "bool" -> IF v.val THEN TrueText ELSE FalseText

LastCall == q_calls[Len(q_calls)]

\* C9: set_value appends a string in single quotes, a number as its decimal
\* text and a boolean as the lower-case literal true or false.
C9_ValueDispatch ==
    (q_calls # <<>> /\ LastCall.m = "set_value"
        /\ LastCall.arg.typ \in {"str", "int", "bool"})
    => EndsWith(q_query, LiteralOf(LastCall.arg) \o <<" ">>)

\* the calls that are documented to append a token: all but a set_value whose
\* value is neither a string, a number nor a boolean
Appending(calls) ==
    SelectSeq(calls, LAMBDA c :
        c.m # "set_value" \/ c.arg.typ \in {"str", "int", "float", "bool"})

\* the token a call appends; a boolean's is compared up to letter case
TokenMatches(tok, c) ==
    CASE c.m = "set_column"         -> tok = c.arg.val
      [] c.m = "set_operator"       -> tok = c.arg.val
      [] c.m = "set_value_datetime" ->
            tok = <<"d", "a", "t", "e", "t", "i", "m", "e">> \o c.arg.val
      [] c.m = "set_value"          -> Lower(tok) = Lower(LiteralOf(c.arg))

\* the text is one space-terminated token for each of the calls cs, in order
OneTokenPerCall(q, cs) ==
    /\ Cardinality(Spaces(q)) = Len(cs)
    /\ q # <<>> => q[Len(q)] = " "
    /\ \A k \in 1..Len(cs) :
         /\ Token(q, k) # <<>>
         /\ TokenMatches(Token(q, k), cs[k])

AgeGe21 == <<QCall("set_column", PyStr(<<"A", "g", "e">>)),
             QCall("set_operator", PyStr(Operator.GREATERTHANOREQUAL)),
             QCall("set_value", PyInt(21))>>

\* C10 as stated: the text holds exactly one token, followed by one space,
\* for every call made, whatever its argument.
C10_TokenPerEveryCall == OneTokenPerCall(q_query, q_calls)

\* C10, amended: the text holds, in call order, one token followed by one
\* space for every call but a set_value whose value is neither a string, a
\* number nor a boolean, which appends nothing (Age, ge, 21 give "Age ge 21 ");
\* the text before a call is a prefix of the text after it; and get_query
\* returns the text and leaves it as it is.
C10_TokensInCallOrder ==
    /\ [](/\ OneTokenPerCall(q_query, Appending(q_calls))
          /\ q_calls = AgeGe21 =>
               q_query = <<"A", "g", "e", " ", "g", "e", " ", "2", "1", " ">>)
    /\ [][/\ IsPrefix(q_query, q_query')
          /\ q_calls' = q_calls => (q_query' = q_query /\ q_ret' = PyStr(q_query))]_vars

\* Age, ge, 21 were set and get_query returned "Age ge 21 "
C10_Witness ==
    /\ q_calls = AgeGe21
    /\ q_ret = PyStr(<<"A", "g", "e", " ", "g", "e", " ", "2", "1", " ">>)

====
